---- MODULE Spec2Model ----
(***************************************************************************)
(* A model of run.py: a Telegram bot that parses a free-text trading       *)
(* signal, computes the position size against the live account balance    *)
(* and places one order per take-profit on a MetaTrader account.           *)
(*                                                                         *)
(* Representation.  Python str is a TLA+ string.  A Python float that      *)
(* holds a price is the integer number of 1e-5 price units (PriceScale);   *)
(* a balance is an integer number of cents; the risk factor is an integer  *)
(* percentage; a position size is an integer number of 0.01 lots and an    *)
(* order volume an integer number of 0.001 lots.  None is the empty        *)
(* sequence and a present value v is <<v>>.                                *)
(***************************************************************************)
EXTENDS Integers, Sequences, FiniteSets, TLC

(***************************************************************************)
(* Python built-ins on strings.  A str of the model is a string of the     *)
(* code points below 256, the ones a string can be written with; the code  *)
(* points above are in no input of the model.                              *)
(***************************************************************************)
At(s, i) == SubSeq(s, i, i)

\* The characters of a str, in order
Chars(s) == [i \in 1..Len(s) |-> At(s, i)]

\* The letters below 256 that str.lower() and str.upper() change, each under
\* the letter it is changed to
UpperCase == "ABCDEFGHIJKLMNOPQRSTUVWXYZÀÁÂÃÄÅÆÇÈÉÊËÌÍÎÏÐÑÒÓÔÕÖØÙÚÛÜÝÞ"
LowerCase == "abcdefghijklmnopqrstuvwxyzàáâãäåæçèéêëìíîïðñòóôõöøùúûüýþ"
DigitChars == "0123456789"

\* The characters of str.isspace(): tab, line feed, vertical tab, form feed,
\* carriage return, the separators 1C to 1F, space, next line (85) and
\* no-break space (A0)
Whitespace == {"\t", "\n", "", "\f", "\r", "", "", "", "", " ", "", " "}

\* The characters float() skips around a literal: those of Whitespace but the
\* separators 1C to 1F
FloatSpace == {"\t", "\n", "", "\f", "\r", " ", "", " "}

\* The line boundaries of str.splitlines(): line feed, vertical tab, form
\* feed, carriage return, the separators 1C to 1E and next line (85)
LineBreaks == {"\n", "", "\f", "\r", "", "", "", ""}

IsSpace(c) == c \in Whitespace
IsDigit(c) == \E i \in 1..Len(DigitChars) : At(DigitChars, i) = c
DigitOf(c) == (CHOOSE i \in 1..Len(DigitChars) : At(DigitChars, i) = c) - 1

Min(S) == CHOOSE x \in S : \A y \in S : x <= y
Max(S) == CHOOSE x \in S : \A y \in S : x >= y

MapChar(c, from, to) ==
  IF \E i \in 1..Len(from) : At(from, i) = c
  THEN At(to, CHOOSE i \in 1..Len(from) : At(from, i) = c)
  ELSE c

\* The lower case of each character of a sequence
LowerChars(cs) == [i \in 1..Len(cs) |-> MapChar(cs[i], UpperCase, LowerCase)]

\* str.lower(), as the sequence of the result's characters
lower(s) == LowerChars(Chars(s))

\* c.upper() of a character other than "ß".  The upper case of "ÿ" and
\* of "µ" is a letter above 255, written by its code point: it is no
\* character of a str of the model.
UpperOf(c) ==
  IF c = "ÿ" THEN "U+0178"
  ELSE IF c = "µ" THEN "U+039C"
  ELSE MapChar(c, LowerCase, UpperCase)

\* The character of s that gives character k of s.upper(): "ß" gives the
\* two characters "SS"
UpperSource(s, k) ==
  CHOOSE i \in 1..Len(s) :
    /\ i + Cardinality({j \in 1..(i - 1) : At(s, j) = "ß"}) <= k
    /\ k <= i + Cardinality({j \in 1..i : At(s, j) = "ß"})

\* str.upper(), as the sequence of the result's characters
upper(s) ==
  [k \in 1..(Len(s) + Cardinality({j \in 1..Len(s) : At(s, j) = "ß"})) |->
     IF At(s, UpperSource(s, k)) = "ß" THEN "S" ELSE UpperOf(At(s, UpperSource(s, k)))]

\* needle in hay, of two sequences of characters
Contains(hay, needle) ==
  \E i \in 0..(Len(hay) - Len(needle)) : SubSeq(hay, i + 1, i + Len(needle)) = needle

\* str.splitlines(): a line ends at each line boundary, "\r\n" being one
\* boundary, and the text after the last boundary is a line when it is not
\* empty.  ends are the positions of the last character of each boundary.
splitlines(s) ==
  LET ends == {i \in 1..Len(s) :
                 /\ At(s, i) \in LineBreaks
                 /\ ~(At(s, i) = "\r" /\ i < Len(s) /\ At(s, i + 1) = "\n")}
      first(e) == IF At(s, e) = "\n" /\ e > 1 /\ At(s, e - 1) = "\r" THEN e - 1 ELSE e
      n == Cardinality(ends) + (IF s # "" /\ Len(s) \notin ends THEN 1 ELSE 0)
      start(k) == IF k = 1 THEN 1
                  ELSE 1 + CHOOSE b \in ends : Cardinality({c \in ends : c < b}) = k - 2
      stop(k) == IF \E b \in ends : b >= start(k)
                 THEN first(Min({b \in ends : b >= start(k)})) - 1
                 ELSE Len(s)
  IN [k \in 1..n |-> SubSeq(s, start(k), stop(k))]

\* str.rstrip()
rstrip(s) == SubSeq(s, 1, Max({i \in 1..Len(s) : ~IsSpace(At(s, i))} \cup {0}))

\* str.split(): the maximal runs of non-whitespace characters
split(s) ==
  LET starts == {i \in 1..Len(s) :
                   ~IsSpace(At(s, i)) /\ (i = 1 \/ IsSpace(At(s, i - 1)))}
      start(k) == CHOOSE b \in starts : Cardinality({c \in starts : c < b}) = k - 1
      stop(k) == Min({i \in start(k)..Len(s) : IsSpace(At(s, i))} \cup {Len(s) + 1}) - 1
  IN [k \in 1..Cardinality(starts) |-> SubSeq(s, start(k), stop(k))]

(***************************************************************************)
(* int(s) and float(s).  An int is an integer up to 2^31 - 1.  A float     *)
(* that holds a price is kept in 1e-5 units (PriceScale): float(s) is the  *)
(* record of a tag and a value f,                                          *)
(*   "ok"          the float f / PriceScale, of at most MaxDigits digits,  *)
(*   "-0.0"        the float -0.0, which equals 0.0 and prints a sign,     *)
(*   "nan", "inf", "-inf"   the floats of these names,                     *)
(*   "beyond"      a finite float that is not computed here: the literal   *)
(*                 is not a whole number of 1e-5 units of at most          *)
(*                 MaxDigits digits, and float(s) is the double nearest    *)
(*                 to it,                                                  *)
(*   "ValueError"  the exception, for a string that is no literal.         *)
(***************************************************************************)
PriceDigits == 5
PriceScale == 100000
MaxDigits == 9

Pow10 == <<1, 10, 100, 1000, 10000, 100000, 1000000, 10000000, 100000000, 1000000000>>

\* The digits of sys.maxsize of the model, 2^31 - 1
IntDigits == Chars("2147483647")

\* 2^-1075, half the least positive double, is 0.UnderflowDigits times
\* 10^UnderflowExponent: a literal up to it is read as zero
UnderflowDigits ==
  Chars("247032822920623272088284396434110686182529901307162382212792"
        \o "841250337753635104375932649918180817996189898282347722858865"
        \o "463328355177969898199387398005390939063150356595155702263922"
        \o "908583924491051844359318028499365361525003193704576782492193"
        \o "656236698636584807570015857692699037063119282795585513329278"
        \o "343384093519780155312465972635795746227664652728272200563740"
        \o "064854999770965994704540208281662262378573934507363390079677"
        \o "619305775067401763246736009689513405355374585166611342237666"
        \o "786041621596804619144672918403005300575308490487653917113865"
        \o "916462395249126236538818796362393732804238910186723484976682"
        \o "350898633885879256283027559956575244555072551893136908362547"
        \o "791869486679949683240497058210285131854513962138377228261454"
        \o "37693412532098591327667236328125")
UnderflowExponent == -323

\* 2^1024 - 2^970, half way from the greatest double to 2^1024, is
\* 0.OverflowDigits times 10^OverflowExponent: a literal from it on is read
\* as an infinity
OverflowDigits ==
  Chars("179769313486231580793728971405303415079934132710037826936173"
        \o "778980444968292764750946649017977587207096330286416692887910"
        \o "946555547851940402630657488671505820681908902000708383676273"
        \o "854845817711531764475730270069855571366959622842914819860834"
        \o "936475292719074168444365510704342711559699508093042880177904"
        \o "174497792")
OverflowExponent == 309

Zeros == Chars("0000000000")

AllDigits(cs) == \A i \in 1..Len(cs) : IsDigit(cs[i])

\* a <= b, of two sequences of digits read as the fractions 0.a and 0.b,
\* neither ending in a zero: the first digit they differ in decides, and
\* when there is none the shorter is the smaller
FractionLeq(a, b) ==
  IF \E i \in 1..Min({Len(a), Len(b)}) : a[i] # b[i]
  THEN DigitOf(a[Min({i \in 1..Min({Len(a), Len(b)}) : a[i] # b[i]})])
       < DigitOf(b[Min({i \in 1..Min({Len(a), Len(b)}) : a[i] # b[i]})])
  ELSE Len(a) <= Len(b)

\* The digits without the leading zeros, and without the trailing zeros
Significant(cs) ==
  SubSeq(cs, Min({i \in 1..Len(cs) : cs[i] # "0"} \cup {Len(cs) + 1}), Len(cs))
Core(cs) == SubSeq(cs, 1, Max({i \in 1..Len(cs) : cs[i] # "0"} \cup {0}))

\* The digit k places from the right of a sequence of digits, 0 beyond its left end
Place(cs, k) == IF k < Len(cs) THEN DigitOf(cs[Len(cs) - k]) * Pow10[k + 1] ELSE 0

\* The number a sequence of at most ten digits spells
DigitsSum(cs) ==
  Place(cs, 0) + Place(cs, 1) + Place(cs, 2) + Place(cs, 3) + Place(cs, 4)
  + Place(cs, 5) + Place(cs, 6) + Place(cs, 7) + Place(cs, 8) + Place(cs, 9)

\* A sequence of digits without leading zeros spells an int of the model
Held(cs) ==
  \/ Len(cs) < Len(IntDigits)
  \/ Len(cs) = Len(IntDigits) /\ FractionLeq(cs, IntDigits)

\* int(s) of a sequence of digits: <<n>>, or None for a number above 2^31 - 1
DigitsValue(cs) ==
  IF Held(Significant(cs)) THEN <<DigitsSum(Significant(cs))>> ELSE <<>>

Float(tag, f) == [tag |-> tag, f |-> f]

\* zero, with the sign of the literal
Zero(neg) == Float(IF neg THEN "-0.0" ELSE "ok", 0)

\* The float of 0.core times 10^e, which is not kept in units: a zero, an
\* infinity, or a finite float that is not computed
Unkept(neg, core, e) ==
  IF e < UnderflowExponent \/ (e = UnderflowExponent /\ FractionLeq(core, UnderflowDigits))
  THEN Zero(neg)
  ELSE IF \/ e > OverflowExponent
          \/ e = OverflowExponent /\ (core = OverflowDigits \/ ~FractionLeq(core, OverflowDigits))
  THEN Float(IF neg THEN "-inf" ELSE "inf", 0)
  ELSE Float("beyond", 0)

\* The float of the digits core (no zero at either end) times 10^y units,
\* which is 0.core times 10^(Len(core) + y - PriceDigits)
Scaled(neg, core, y) ==
  IF y >= 0 /\ Len(core) + y <= MaxDigits
  THEN Float("ok", (IF neg THEN -1 ELSE 1) * DigitsSum(core \o SubSeq(Zeros, 1, y)))
  ELSE Unkept(neg, core, Len(core) + y - PriceDigits)

\* The float of the digits sig (no leading zero) times 10^y units
Value(neg, sig, y) ==
  IF sig = <<>> THEN Zero(neg)
  ELSE Scaled(neg, Core(sig), y + Len(sig) - Len(Core(sig)))

\* The integer digits ip and fraction digits fp of a literal with exponent e
Parts(neg, ip, fp, e) ==
  IF AllDigits(ip) /\ AllDigits(fp) /\ Len(ip) + Len(fp) > 0
  THEN Value(neg, Significant(ip \o fp), e - Len(fp) + PriceDigits)
  ELSE Float("ValueError", 0)

\* The part before the exponent, with its first point at d (past the end
\* when it has none)
Mantissa(neg, m, e, d) == Parts(neg, SubSeq(m, 1, d - 1), SubSeq(m, d + 1, Len(m)), e)

\* An optional sign
Signless(cs) ==
  IF cs # <<>> /\ cs[1] \in {"+", "-"} THEN SubSeq(cs, 2, Len(cs)) ELSE cs
IsNegative(cs) == cs # <<>> /\ cs[1] = "-"

\* The part after "e": an optional sign and at least one digit
IsExponent(es) == Signless(es) # <<>> /\ AllDigits(Signless(es))

\* Its number; one of more than MaxDigits digits is as good as the largest
\* of MaxDigits digits, the float being an infinity or a zero from far below
Exponent(es) ==
  (IF IsNegative(es) THEN -1 ELSE 1)
  * (IF Len(Significant(Signless(es))) > MaxDigits THEN Pow10[MaxDigits + 1] - 1
     ELSE DigitsSum(Significant(Signless(es))))

\* A literal without its sign, with its first "e" or "E" at p (past the end
\* when it has none)
Number(neg, body, p) ==
  IF p <= Len(body) /\ ~IsExponent(SubSeq(body, p + 1, Len(body)))
  THEN Float("ValueError", 0)
  ELSE Mantissa(neg, SubSeq(body, 1, p - 1),
                IF p <= Len(body) THEN Exponent(SubSeq(body, p + 1, Len(body))) ELSE 0,
                Min({i \in 1..(p - 1) : body[i] = "."} \cup {p}))

\* "inf", "infinity" and "nan" in any case, or a number
Signed(neg, body) ==
  IF LowerChars(body) \in {Chars("inf"), Chars("infinity")}
  THEN Float(IF neg THEN "-inf" ELSE "inf", 0)
  ELSE IF LowerChars(body) = Chars("nan") THEN Float("nan", 0)
  ELSE Number(neg, body, Min({i \in 1..Len(body) : body[i] \in {"e", "E"}} \cup {Len(body) + 1}))

\* An underscore stands between two digits
Underscored(cs) ==
  \A i \in 1..Len(cs) :
    cs[i] = "_" => i > 1 /\ i < Len(cs) /\ IsDigit(cs[i - 1]) /\ IsDigit(cs[i + 1])

NotUnderscore(c) == c # "_"

FloatOfChars(cs) ==
  IF ~Underscored(cs) THEN Float("ValueError", 0)
  ELSE Signed(IsNegative(cs), Signless(SelectSeq(cs, NotUnderscore)))

\* The literal of a str: what is left without the FloatSpace around it
Literal(s) ==
  SubSeq(s, Min({i \in 1..Len(s) : At(s, i) \notin FloatSpace} \cup {Len(s) + 1}),
         Max({i \in 1..Len(s) : At(s, i) \notin FloatSpace} \cup {0}))

float(tok) == FloatOfChars(Chars(Literal(tok)))

\* A float as a number of the model: the 1e-5 units of a float kept in them,
\* and for any other float one of four numbers above every number of units.
\* NaN, Inf and NegInf are the floats nan, inf and -inf; Beyond is a finite
\* float that is not computed, whatever it is.  Beyond also stands for a
\* count or an amount computed from such a float.
Beyond == 2000000000
Inf == 2000000001
NegInf == -2000000001
NaN == 2000000002

IsHeld(n) == n > NegInf /\ n < Beyond

\* The number of a float() result that is no exception
FloatValue(r) ==
  CASE r.tag = "nan" -> NaN
    [] r.tag = "inf" -> Inf
    [] r.tag = "-inf" -> NegInf
    [] r.tag = "beyond" -> Beyond
    [] OTHER -> r.f

(***************************************************************************)
(* Configuration (environment)                                             *)
(***************************************************************************)
TELEGRAM_USER == "operator"

\* RISK_FACTOR, as a percentage: 2 is the float 0.02
RISK_FACTOR == 2

SYMBOLS ==
  {"AUDCAD", "AUDCHF", "AUDJPY", "AUDNZD", "AUDUSD", "CADCHF", "CADJPY",
   "CHFJPY", "EURAUD", "EURCAD", "EURCHF", "EURGBP", "EURJPY", "EURNZD",
   "EURUSD", "GBPAUD", "GBPCAD", "GBPCHF", "GBPJPY", "GBPNZD", "GBPUSD",
   "NOW", "NZDCAD", "NZDCHF", "NZDJPY", "NZDUSD", "USDCAD", "USDCHF",
   "USDJPY", "XAGUSD", "XAUUSD"}

(***************************************************************************)
(* ParseSignal                                                             *)
(***************************************************************************)
\* trade['Entry'] is a str for Buy/Sell and a float otherwise.  For a float,
\* f is its number (see FloatValue) and s is "" but for the zero with a
\* sign, where it is its str
StrEntry(s) == [type |-> "str", s |-> s, f |-> 0]
FloatEntry(f) == [type |-> "float", s |-> "", f |-> f]
NegativeZeroEntry == [type |-> "float", s |-> "-0.0", f |-> 0]

NoTrade ==
  [OrderType |-> "", Symbol |-> "", Entry |-> StrEntry(""), StopLoss |-> 0,
   TP |-> <<>>, RiskFactor |-> 0, PositionSize |-> <<>>]

\* tokens[-1]
LastOf(tokens) ==
  IF tokens = <<>> THEN [tag |-> "IndexError", tok |-> ""]
  ELSE [tag |-> "ok", tok |-> tokens[Len(tokens)]]

\* (signal[i].split())[-1], with i counted from 0
LastToken(signal, i) ==
  IF i + 1 > Len(signal) THEN [tag |-> "IndexError", tok |-> ""]
  ELSE LastOf(split(signal[i + 1]))

FloatOf(t) == IF t.tag # "ok" THEN Float(t.tag, 0) ELSE float(t.tok)

\* The exceptions of the lines that read a number
IsError(r) == r.tag \in {"IndexError", "ValueError"}

\* float((signal[i].split())[-1])
FloatAt(signal, i) == FloatOf(LastToken(signal, i))

\* Mutant: the chain tries Buy and Sell before the two-word order types
OrderTypeOf_BuyFirst(low) ==
  IF Contains(low, lower("Buy")) THEN "Buy"
  ELSE IF Contains(low, lower("Sell")) THEN "Sell"
  ELSE IF Contains(low, lower("Buy Limit")) THEN "Buy Limit"
  ELSE IF Contains(low, lower("Sell Limit")) THEN "Sell Limit"
  ELSE IF Contains(low, lower("Buy Stop")) THEN "Buy Stop"
  ELSE IF Contains(low, lower("Sell Stop")) THEN "Sell Stop"
  ELSE ""

\* The if/elif chain on low = signal[0].lower(); "" when no branch is taken
OrderTypeOf(low) ==
  IF Contains(low, lower("Buy Limit")) THEN "Buy Limit"
  ELSE IF Contains(low, lower("Sell Limit")) THEN "Sell Limit"
  ELSE IF Contains(low, lower("Buy Stop")) THEN "Buy Stop"
  ELSE IF Contains(low, lower("Sell Stop")) THEN "Sell Stop"
  ELSE IF Contains(low, lower("Buy")) THEN "Buy"
  ELSE IF Contains(low, lower("Sell")) THEN "Sell"
  ELSE ""

\* The str of SYMBOLS that the characters spell, "" when they spell none
SymbolOf(chars) ==
  IF \E x \in SYMBOLS : Chars(x) = chars
  THEN CHOOSE x \in SYMBOLS : Chars(x) = chars
  ELSE ""

\* The body of ParseSignal from line 63 on, in the order it reads the lines.
\* The result is tagged: "dict" (a trade), "empty" (the {} returned for an
\* unknown order type or symbol), or the exception raised.
ParseLines(signal, OrderType, sym, entryTok, entryF, sl, tp1, tp2) ==
  IF OrderType = "" THEN [tag |-> "empty", trade |-> NoTrade]
  ELSE IF sym.tag # "ok" THEN [tag |-> sym.tag, trade |-> NoTrade]
  ELSE IF SymbolOf(upper(sym.tok)) \notin SYMBOLS THEN [tag |-> "empty", trade |-> NoTrade]
  ELSE IF OrderType \in {"Buy", "Sell"} /\ entryTok.tag # "ok"
  THEN [tag |-> entryTok.tag, trade |-> NoTrade]
  ELSE IF OrderType \notin {"Buy", "Sell"} /\ IsError(entryF)
  THEN [tag |-> entryF.tag, trade |-> NoTrade]
  ELSE IF IsError(sl) THEN [tag |-> sl.tag, trade |-> NoTrade]
  ELSE IF IsError(tp1) THEN [tag |-> tp1.tag, trade |-> NoTrade]
  ELSE IF Len(signal) > 4 /\ IsError(tp2) THEN [tag |-> tp2.tag, trade |-> NoTrade]
  ELSE [tag |-> "dict",
        trade |->
          [OrderType |-> OrderType,
           Symbol |-> SymbolOf(upper(sym.tok)),
           Entry |-> IF OrderType \in {"Buy", "Sell"}
                     THEN StrEntry(entryTok.tok)
                     ELSE IF entryF.tag = "-0.0" THEN NegativeZeroEntry
                     ELSE FloatEntry(FloatValue(entryF)),
           StopLoss |-> FloatValue(sl),
           TP |-> IF Len(signal) > 4
                  THEN <<FloatValue(tp1), FloatValue(tp2)>> ELSE <<FloatValue(tp1)>>,
           RiskFactor |-> RISK_FACTOR,
           PositionSize |-> <<>>]]

\* signal is the list of the stripped lines; signal[0] of an empty one raises
ParseStripped(signal) ==
  IF Len(signal) = 0 THEN [tag |-> "IndexError", trade |-> NoTrade]
  ELSE ParseLines(signal, OrderTypeOf(lower(signal[1])), LastToken(signal, 0),
                  LastToken(signal, 1), FloatAt(signal, 1), FloatAt(signal, 2),
                  FloatAt(signal, 3), FloatAt(signal, 4))

Stripped(lines) == [i \in 1..Len(lines) |-> rstrip(lines[i])]

ParseSignal(text) == ParseStripped(Stripped(splitlines(text)))

(***************************************************************************)
(* State                                                                   *)
(***************************************************************************)
VARIABLES
  ALLOWED_MT4_ACCOUNT_NUMBER, \* os.environ.get("4835673"): None or a str
  conversations,              \* ConversationHandler: the state of each user's conversation
  user_data,                  \* context.user_data of each user: <<>> is {}, <<t>> is {'trade': t}
  request,                    \* history: how each user's current request began, its runs and orders
  last,                       \* the last update handled: its input and what the handler did
  sized                       \* the position sizing of line 109 taken alone: inputs and sizes

vars == <<ALLOWED_MT4_ACCOUNT_NUMBER, conversations, user_data, request, last, sized>>

None == <<>>

\* possible states for conversation handler; END is ConversationHandler.END
CALCULATE == "CALCULATE"
TRADE == "TRADE"
DECISION == "DECISION"
END == "END"

(***************************************************************************)
(* GetTradeInformation and CreateTable                                     *)
(***************************************************************************)
Abs(n) == IF n < 0 THEN -n ELSE n

\* round(a / b) for b > 0, to the nearest integer.  Python rounds the float
\* quotient, and when the decimal quotient is an exact tie (x.5) the float lies
\* just below or just above it, as the operands' binary representations
\* decide: up says which, so a tie is rounded to either neighbour.
Round(a, b, up) ==
  LET q == a \div b
      r == a % b
  IN IF 2 * r < b THEN q
     ELSE IF 2 * r > b THEN q + 1
     ELSE IF up THEN q + 1 ELSE q

\* The number of digits of n >= 0, for n below 10^MaxDigits
NumDigits(n) == Min({k \in 1..MaxDigits : k = MaxDigits \/ n < Pow10[k + 1]})

\* str(trade['Entry']).index('.'): -1 stands for the ValueError raised when
\* there is no '.', as in 'NOW', 'nan', 'inf' or the repr 1e-05 of a float
\* below 0.0001, and -2 for the index or ValueError of a float that is
\* Beyond
DotIndex(Entry) ==
  IF Entry.type = "str"
  THEN LET dots == {i \in 1..Len(Entry.s) : At(Entry.s, i) = "."}
       IN IF dots = {} THEN -1 ELSE Min(dots) - 1
  ELSE IF Entry.f = Beyond THEN -2
  ELSE IF ~IsHeld(Entry.f) THEN -1
  ELSE IF Entry.f # 0 /\ Abs(Entry.f) < PriceScale \div 10000 THEN -1
  ELSE (IF Entry.f < 0 \/ Entry = NegativeZeroEntry THEN 1 ELSE 0)
       + NumDigits(Abs(Entry.f) \div PriceScale)

\* The two multipliers chosen by index('.') >= 2; 0 stands for its
\* ValueError, and Beyond for any of the three
ByDotIndex(index) ==
  IF index = -2 THEN Beyond
  ELSE IF index = -1 THEN 0
  ELSE IF index >= 2 THEN PriceScale \div 100
  ELSE PriceScale \div 10000

\* multiplier, in 1e-5 price units
Multiplier(trade) ==
  IF trade.Symbol = "XAUUSD" THEN PriceScale \div 10
  ELSE IF trade.Symbol = "XAGUSD" THEN PriceScale \div 1000
  ELSE ByDotIndex(DotIndex(trade.Entry))

\* abs(round((price - trade['Entry']) / multiplier)), of numbers kept in units
Pips(price, entry, multiplier, up) == Abs(Round(price - entry, multiplier, up))

\* What a run makes of the floats that are Beyond.  A run is given the
\* directions up[1] to up[4] of its ties and, after them, one choice for the
\* multiplier of an entry that is Beyond (up[5]: "ValueError" or "some") and
\* one for each distance to or from a number that is Beyond (up[6] the stop
\* loss, up[7] and up[8] the take-profits): "zero", "some" (pips) or
\* "OverflowError", the error of round() of an infinite quotient.  Where
\* nothing is Beyond the choice is "some" and is not read.
MultiplierChoices(Entry) ==
  IF Entry.f = Beyond THEN {"ValueError", "some"} ELSE {"some"}

DistanceChoices(price, Entry) ==
  IF price = Beyond \/ Entry.f = Beyond
  THEN {"zero", "some", "OverflowError"} ELSE {"some"}

\* The choices of a run of ConnectMetaTrader with the trade
UnknownsOf(trade) ==
  {<<m, sl, tp1, tp2>> :
     m \in MultiplierChoices(trade.Entry),
     sl \in DistanceChoices(trade.StopLoss, trade.Entry),
     tp1 \in DistanceChoices(trade.TP[1], trade.Entry),
     tp2 \in IF Len(trade.TP) > 1 THEN DistanceChoices(trade.TP[2], trade.Entry)
             ELSE {"some"}}

\* Choice i of a run, "some" when the run is given none
Choice(up, i) == IF Len(up) >= i THEN up[i] ELSE "some"

\* A pip distance: n pips (Beyond: some number of them, not zero), or the
\* exception of round()
Distance(tag, n) == [tag |-> tag, n |-> n]

\* abs(round((price - entry) / multiplier)) with a number that is not kept in
\* units: round(nan) is a ValueError, and inf - inf is nan; round(inf) is
\* an OverflowError
UnheldPips(price, entry, choice) ==
  IF price = NaN \/ entry = NaN THEN Distance("ValueError", 0)
  ELSE IF price \in {Inf, NegInf} /\ price = entry THEN Distance("ValueError", 0)
  ELSE IF price \in {Inf, NegInf} \/ entry \in {Inf, NegInf}
  THEN Distance("OverflowError", 0)
  ELSE IF choice = "OverflowError" THEN Distance("OverflowError", 0)
  ELSE IF choice = "zero" THEN Distance("ok", 0)
  ELSE Distance("ok", Beyond)

\* abs(round((price - trade['Entry']) / multiplier))
PipsOf(price, entry, multiplier, tie, choice) ==
  IF IsHeld(price) /\ IsHeld(entry) /\ IsHeld(multiplier)
  THEN Distance("ok", Pips(price, entry, multiplier, tie))
  ELSE UnheldPips(price, entry, choice)

\* a * b of two amounts that are not negative: Beyond when one of them is,
\* or when the product is above the numbers of the model
Times(a, b) ==
  IF a = Beyond \/ b = Beyond THEN Beyond
  ELSE IF a # 0 /\ b > (Beyond - 1) \div a THEN Beyond
  ELSE a * b

\* Mutant: the quotient is rounded up
PositionSizeOf_Ceiling(balance, RiskFactor, stopLossPips, up) ==
  ((balance * RiskFactor) \div 1000 + stopLossPips) \div stopLossPips

\* Mutant: the risk is multiplied by the pip distance
PositionSizeOf_Times(balance, RiskFactor, stopLossPips, up) ==
  ((balance * RiskFactor) \div 1000) * stopLossPips


\* math.floor(((balance * RiskFactor) / stopLossPips) / 10 * 100), the position
\* size in 0.01 lots: balance is in cents and RiskFactor a percentage, so this
\* is floor(balance * RiskFactor / (1000 * stopLossPips)), divided in two steps.
\* When the division is exact the float product of the three operations lies
\* on the integer or just below it, and floor then gives one hundredth less:
\* up says which.
PositionSizeOf(balance, RiskFactor, stopLossPips, up) ==
  IF /\ ~up
     /\ (balance * RiskFactor) % 1000 = 0
     /\ ((balance * RiskFactor) \div 1000) % stopLossPips = 0
     /\ balance * RiskFactor > 0
  THEN ((balance * RiskFactor) \div 1000) \div stopLossPips - 1
  ELSE ((balance * RiskFactor) \div 1000) \div stopLossPips

NoReport == <<>>

\* profit of each take-profit: PositionSize * 10 * (1 / len) * pips, in cents
ProfitOf(trade, takeProfitPips) ==
  [i \in 1..Len(takeProfitPips) |->
     IF Times(Times(trade.PositionSize[1], 10), takeProfitPips[i]) = Beyond THEN Beyond
     ELSE (trade.PositionSize[1] * 10 * takeProfitPips[i]) \div Len(takeProfitPips)]

\* The rows of the table, money in cents
TableRows(trade, balance, stopLossPips, takeProfitPips, profit) ==
  [OrderType |-> trade.OrderType,
   Symbol |-> trade.Symbol,
   Entry |-> trade.Entry.f,
   StopLossPips |-> stopLossPips,
   TakeProfitPips |-> takeProfitPips,
   RiskFactor |-> trade.RiskFactor,
   PositionSize |-> trade.PositionSize[1],
   Balance |-> balance,
   PotentialLoss |-> Times(Times(trade.PositionSize[1], 10), stopLossPips),
   Profit |-> profit,
   TotalProfit |-> IF Len(profit) = 2
                   THEN (IF Beyond \in {profit[1], profit[2]} THEN Beyond
                         ELSE profit[1] + profit[2])
                   ELSE profit[1]]

CreateTable(trade, balance, stopLossPips, takeProfitPips) ==
  TableRows(trade, balance, stopLossPips, takeProfitPips,
            ProfitOf(trade, takeProfitPips))

\* Lines 115 and 116: the table is sent
Report(trade, balance, stopLossPips, takeProfitPips) ==
  [tag |-> "ok", trade |-> trade,
   report |-> <<CreateTable(trade, balance, stopLossPips, takeProfitPips)>>]

\* Lines 111 to 113, with the PositionSize in the trade: the first distance
\* that round() refuses ends the run
TakeProfits(trade, balance, stopLossPips, takeProfit) ==
  IF \E i \in 1..Len(takeProfit) : takeProfit[i].tag # "ok"
  THEN [tag |-> takeProfit[Min({i \in 1..Len(takeProfit) : takeProfit[i].tag # "ok"})].tag,
        trade |-> trade, report |-> NoReport]
  ELSE Report(trade, balance, stopLossPips,
              [i \in 1..Len(takeProfit) |-> takeProfit[i].n])

\* Lines 108 and 109, with the distances: the exception of round(), the
\* division by stopLossPips, and a size that is Beyond for pips that are
Size(trade, balance, stopLoss, takeProfit, up) ==
  IF stopLoss.tag # "ok"
  THEN [tag |-> stopLoss.tag, trade |-> trade, report |-> NoReport]
  ELSE IF stopLoss.n = 0
  THEN [tag |-> "ZeroDivisionError", trade |-> trade, report |-> NoReport]
  ELSE TakeProfits([trade EXCEPT !.PositionSize =
                      <<IF stopLoss.n = Beyond THEN Beyond
                        ELSE PositionSizeOf(balance, trade.RiskFactor, stopLoss.n, up)>>],
                   balance, stopLoss.n, takeProfit)

\* Line 108 on, with the multiplier chosen: a str Entry cannot be subtracted.
\* up[1] is the direction of a tie of the stop-loss quotient, up[i + 1] that
\* of take-profit i, up[4] that of the position size; see Unknowns for the
\* choices after them.
Information(trade, balance, up, multiplier) ==
  IF multiplier = 0 \/ (multiplier = Beyond /\ Choice(up, 5) = "ValueError")
  THEN [tag |-> "ValueError", trade |-> trade, report |-> NoReport]
  ELSE IF trade.Entry.type = "str"
  THEN [tag |-> "TypeError", trade |-> trade, report |-> NoReport]
  ELSE Size(trade, balance,
            PipsOf(trade.StopLoss, trade.Entry.f, multiplier, up[1], Choice(up, 6)),
            [i \in 1..Len(trade.TP) |->
               PipsOf(trade.TP[i], trade.Entry.f, multiplier, up[i + 1], Choice(up, 6 + i))],
            up[4])

\* The result: tag "ok" with the trade (PositionSize set) and the table sent,
\* or the exception raised, with the trade as it was when it was raised.
GetTradeInformation(trade, balance, up) ==
  Information(trade, balance, up, Multiplier(trade))

(***************************************************************************)
(* The MetaApi gateway.  One run of ConnectMetaTrader meets one behaviour  *)
(* g of the gateway: the account's state, the call that raises (if any),   *)
(* the account information, the symbol price and the order that fails.     *)
(***************************************************************************)
deployed_states == {"DEPLOYING", "DEPLOYED"}

\* The values the environment gives the variable read at line 32, and int()
\* of each, evaluated once
EnvValues == {"4835673"}
IntOf == [s \in EnvValues |-> DigitsValue(Chars(s))[1]]

\* A reply_text: text is the sentence the reply begins with, error the
\* exception its f-string formats ("" when it formats none)
Msg(text) == [text |-> text, error |-> ""]
Err(text, error) == [text |-> text, error |-> error]

Out(trade, calls, orders, replies, report) ==
  [trade |-> trade, calls |-> calls, orders |-> orders, replies |-> replies,
   report |-> report]

\* The calls up to account_information, in order
ConnectCalls(g) ==
  <<"get_account">>
  \o (IF g.state \notin deployed_states THEN <<"deploy">> ELSE <<>>)
  \o <<"wait_connected", "connect", "wait_synchronized", "get_account_information">>

\* The connection method each order type is created with
CreateOrder(OrderType) ==
  CASE OrderType = "Buy" -> "create_market_buy_order"
    [] OrderType = "Buy Limit" -> "create_limit_buy_order"
    [] OrderType = "Buy Stop" -> "create_stop_buy_order"
    [] OrderType = "Sell" -> "create_market_sell_order"
    [] OrderType = "Sell Limit" -> "create_limit_sell_order"
    [] OrderType = "Sell Stop" -> "create_stop_sell_order"

\* Mutant: every order takes the whole position size
Volume_Undivided(trade) == trade.PositionSize[1] * 10

\* trade['PositionSize'] / len(trade['TP']), in 0.001 lots
Volume(trade) ==
  IF trade.PositionSize[1] = Beyond THEN Beyond
  ELSE (trade.PositionSize[1] * 10) \div Len(trade.TP)

\* The call made for take-profit i; openPrice is <<>> for a market order,
\* which takes no entry price
OrderFor(trade, i, raised) ==
  [call |-> CreateOrder(trade.OrderType),
   symbol |-> trade.Symbol,
   volume |-> Volume(trade),
   openPrice |-> IF trade.OrderType \in {"Buy", "Sell"} THEN <<>> ELSE <<trade.Entry.f>>,
   stopLoss |-> trade.StopLoss,
   takeProfit |-> trade.TP[i],
   raised |-> raised]

\* Mutant: a try inside the loop, so every take-profit is attempted
EnterTrade_PerLeg(trade, g) ==
  [orders |-> [i \in 1..Len(trade.TP) |-> OrderFor(trade, i, i = g.failedOrder)],
   replies |-> IF g.failedOrder \in 1..Len(trade.TP)
               THEN <<Msg("Entering trade on MetaTrader Account ..."),
                      Err("There was an issue", "OrderError")>>
               ELSE <<Msg("Entering trade on MetaTrader Account ..."),
                      Msg("Trade entered successfully, Good Luck!")>>]

\* Mutant: the except closes what was placed before the order that failed
EnterTrade_Rollback(trade, g) ==
  [orders |-> IF g.failedOrder \in 2..Len(trade.TP)
              THEN [i \in 1..g.failedOrder |-> OrderFor(trade, i, i = g.failedOrder)]
                   \o <<[OrderFor(trade, 1, FALSE) EXCEPT !.call = "close_position"]>>
              ELSE [i \in 1..(IF g.failedOrder \in 1..Len(trade.TP)
                              THEN g.failedOrder ELSE Len(trade.TP)) |->
                      OrderFor(trade, i, i = g.failedOrder)],
   replies |-> IF g.failedOrder \in 1..Len(trade.TP)
               THEN <<Msg("Entering trade on MetaTrader Account ..."),
                      Err("There was an issue", "OrderError")>>
               ELSE <<Msg("Entering trade on MetaTrader Account ..."),
                      Msg("Trade entered successfully, Good Luck!")>>]

\* The try block of the orders: one loop over trade['TP'] inside one try, so
\* the order that raises is the last one attempted
EnterTrade(trade, g) ==
  [orders |-> [i \in 1..(IF g.failedOrder \in 1..Len(trade.TP)
                         THEN g.failedOrder ELSE Len(trade.TP)) |->
                 OrderFor(trade, i, i = g.failedOrder)],
   replies |-> IF g.failedOrder \in 1..Len(trade.TP)
               THEN <<Msg("Entering trade on MetaTrader Account ..."),
                      Err("There was an issue", "OrderError")>>
               ELSE <<Msg("Entering trade on MetaTrader Account ..."),
                      Msg("Trade entered successfully, Good Luck!")>>]

Connected == Msg("Successfully connected to MetaTrader!")
Issue(e) == Err("There was an issue with the connection", e)

\* Lines 189 to 217, with what the try block did
Entered(info, calls, entered) ==
  Out(info.trade, calls, entered.orders,
      <<Connected, Msg("Trade Information")>> \o entered.replies, info.report)

\* Line 187 on, with the result of GetTradeInformation
Calculated(enterTrade, g, calls, info) ==
  IF info.tag # "ok"
  THEN Out(info.trade, calls, <<>>, <<Connected, Issue(info.tag)>>, NoReport)
  ELSE IF ~enterTrade
  THEN Out(info.trade, calls, <<>>, <<Connected, Msg("Trade Information")>>, info.report)
  ELSE Entered(info, calls, EnterTrade(info.trade, g))

\* Lines 179 to 185: the entry of a Buy or Sell at 'NOW' becomes a price
Priced(trade, g) ==
  IF trade.Entry = StrEntry("NOW") /\ trade.OrderType = "Buy"
  THEN [trade EXCEPT !.Entry = FloatEntry(g.bid)]
  ELSE IF trade.Entry = StrEntry("NOW") /\ trade.OrderType = "Sell"
  THEN [trade EXCEPT !.Entry = FloatEntry(g.ask)]
  ELSE trade

\* From the price lookup on: the account guard has passed
CalculateAndEnter(trade, enterTrade, g, up, calls) ==
  IF trade.Entry = StrEntry("NOW") /\ g.raises = "get_symbol_price"
  THEN Out(trade, Append(calls, "get_symbol_price"), <<>>,
           <<Connected, Issue("GatewayError")>>, NoReport)
  ELSE Calculated(enterTrade, g,
                  IF trade.Entry = StrEntry("NOW")
                  THEN Append(calls, "get_symbol_price") ELSE calls,
                  GetTradeInformation(Priced(trade, g), g.balance, up))

\* Mutant: the login of the account is not compared
Connect_Unguarded(trade, enterTrade, g, up, calls) ==
  IF \E i \in 1..Len(calls) : calls[i] = g.raises
  THEN Out(trade, SubSeq(calls, 1, Min({i \in 1..Len(calls) : calls[i] = g.raises})),
           <<>>, <<Issue("GatewayError")>>, NoReport)
  ELSE IF ALLOWED_MT4_ACCOUNT_NUMBER = None
  THEN Out(trade, calls, <<>>, <<Issue("TypeError")>>, NoReport)
  ELSE CalculateAndEnter(trade, enterTrade, g, up, calls)

\* Lines 153 to 175, with the calls up to get_account_information
Connect(trade, enterTrade, g, up, calls) ==
  IF \E i \in 1..Len(calls) : calls[i] = g.raises
  THEN Out(trade, SubSeq(calls, 1, Min({i \in 1..Len(calls) : calls[i] = g.raises})),
           <<>>, <<Issue("GatewayError")>>, NoReport)
  ELSE IF ALLOWED_MT4_ACCOUNT_NUMBER = None
  THEN Out(trade, calls, <<>>, <<Issue("TypeError")>>, NoReport)
  ELSE IF g.login # IntOf[ALLOWED_MT4_ACCOUNT_NUMBER[1]]
  THEN Out(trade, calls, <<>>,
           <<Msg("Connected to an unauthorized MT4 account. Operation aborted.")>>,
           NoReport)
  ELSE CalculateAndEnter(trade, enterTrade, g, up, calls)

\* The trade of the result is the dict after the run: it is changed in place.
ConnectMetaTrader(trade, enterTrade, g, up) ==
  Connect(trade, enterTrade, g, up, ConnectCalls(g))

(***************************************************************************)
(* The inputs: users, messages and gateway behaviours                      *)
(***************************************************************************)
Users == {"operator", "intruder"}

Signals ==
  << "BUY GBPUSD\nEntry NOW\nSL 1.14336\nTP 1.28930\nTP 1.29845",
     "BUY LIMIT GBPUSD\nEntry 1.14480\nSL 1.14336\nTP 1.28930",
     "SELL USDJPY\nEntry NOW\nSL 151.500\nTP 149.000",
     "BUY LIMIT GBPUSD\nEntry 1.14336\nSL 1.14336\nTP 1.28930",
     "BUY GBPUSD\nEntry NOW\nTP 1.28930",
     "HOLD GBPUSD\nEntry NOW\nSL 1.14336\nTP 1.28930",
     "BUY ABCDEF\nEntry NOW\nSL 1.14336\nTP 1.28930",
     "SELL STOP XAUUSD\nEntry 1900.5\nSL abc\nTP 1890.0",
     "BUY GBPUSD\nEntry 1.14480\nSL 1.14336\nTP 1.28930",
     "SELL LIMIT EURUSD\nEntry 1.10000\nSL 1.10500\nTP 1.09000\nTP 1.08000",
     "Buy Stop gbpjpy  \nEntry 150.250\nSL 149.750\nTP 151.250\n",
     "BUY LIMIT GBPUSD\nEntry -1.14480\nSL 1.14336\nTP 1.28930",
     "Sell limit or BUY LIMIT eurusd\nEntry 1.10000\nSL 1.10500\nTP 1.09000",
     "BUY LIMIT GBPUSD\nEntry 0\nSL 1.14336\nTP 1.28930",
     "/ BUY GBPUSD\nEntry NOW\nSL 1.14336\nTP 1.28930",
     "BUY GBPUSD\nEntry NOW\nSL 1.14336\nTP 1.289301",
     "SELL XAUUSD\nEntry soon\nSL 1900.5\nTP 1890.0" >>

\* The signals a user sends are the first NumSignals of Signals
NumSignals == 16
SignalSet == {Signals[i] : i \in 1..NumSignals}

Commands == {"/trade", "/calculate", "/yes", "/no", "/cancel"}

\* The characters of the name of a command
CommandChars == "ABCDEFGHIJKLMNOPQRSTUVWXYZabcdefghijklmnopqrstuvwxyz0123456789_"

\* Filters.command: the first entity of the message is a bot_command at its
\* start.  Telegram marks one there when the text is "/" and a name of at
\* least one of CommandChars.
IsCommand(text) ==
  /\ Len(text) >= 2
  /\ At(text, 1) = "/"
  /\ \E i \in 1..Len(CommandChars) : At(CommandChars, i) = At(text, 2)

\* ParseSignal of every message a handler may be given, evaluated once
Parsed == [text \in SignalSet \cup Commands |-> ParseSignal(text)]

\* ParseSignal(text)
Parse(text) == IF text \in DOMAIN Parsed THEN Parsed[text] ELSE ParseSignal(text)

Balances == <<1000000, 2000000, 500000>>
NumBalances == 2

Prices == <<[bid |-> 114400, ask |-> 114420], [bid |-> 114336, ask |-> 114350],
            [bid |-> 114310, ask |-> 114336]>>
NumPrices == 2

Logins == {4835673, 1234567}

GatewayCalls ==
  {"get_account", "deploy", "wait_connected", "connect", "wait_synchronized",
   "get_account_information", "get_symbol_price"}

Gateway(state, raises, login, balance, price, failedOrder) ==
  [state |-> state, raises |-> raises, login |-> login, balance |-> balance,
   bid |-> price.bid, ask |-> price.ask, failedOrder |-> failedOrder]

\* The gateway behaviours met.  What a run never reads is held at one value:
\* nothing after the call that raises, and only the login when it is not the
\* allowed one.
Gateways ==
  {Gateway("DEPLOYED", c, 4835673, Balances[1], Prices[1], 0) :
     c \in GatewayCalls \ {"deploy", "get_symbol_price"}}
  \cup {Gateway("UNDEPLOYED", c, 4835673, Balances[1], Prices[1], 0) : c \in {"deploy", ""}}
  \cup {Gateway("DEPLOYED", "", 1234567, Balances[1], Prices[1], 0)}
  \cup {Gateway("DEPLOYED", "get_symbol_price", 4835673, Balances[b], Prices[1], f) :
          b \in 1..NumBalances, f \in 0..2}
  \cup {Gateway("DEPLOYED", "", 4835673, Balances[b], Prices[q], f) :
          b \in 1..NumBalances, q \in 1..NumPrices, f \in 0..2}

NoGateway == Gateway("", "", 0, 0, [bid |-> 0, ask |-> 0], 0)

\* The direction of each rounding tie of a run (see Round)
Ties == [1..4 -> BOOLEAN]

\* No sizing is under way
NoSizing == [balance |-> 0, RiskFactor |-> 0, stopLossPips |-> <<>>, up |-> <<>>,
             PositionSize |-> <<>>]

(***************************************************************************)
(* The handlers                                                            *)
(***************************************************************************)
NoRequest == [mode |-> "", signal |-> "", yes |-> FALSE, runs |-> 0, orders |-> <<>>]

\* The record of one update: the handler, its input, the state it was handled
\* in, and what the handler sent, called and (trade) left of the dict it used
Handled(handler, u, text, g, replies, calls, orders, report, trade) ==
  [handler |-> handler, user |-> u, text |-> text, g |-> g,
   from |-> conversations[u], replies |-> replies, calls |-> calls,
   orders |-> orders, report |-> report, trade |-> trade]

\* Mutant: the requester is not checked
Trade_Command_Unchecked(u) ==
  /\ conversations[u] = END
  /\ user_data' = [user_data EXCEPT ![u] = <<None>>]
  /\ conversations' = [conversations EXCEPT ![u] = TRADE]
  /\ request' = [request EXCEPT ![u] = [NoRequest EXCEPT !.mode = "trade"]]
  /\ last' = Handled("Trade_Command", u, "/trade", NoGateway,
               <<Msg("Please enter the trade that you would like to place.")>>,
               <<>>, <<>>, NoReport, None)
  /\ UNCHANGED ALLOWED_MT4_ACCOUNT_NUMBER

Trade_Command(u) ==
  /\ conversations[u] = END
  /\ IF ~(u = TELEGRAM_USER)
     THEN /\ last' = Handled("Trade_Command", u, "/trade", NoGateway,
                       <<Msg("You are not authorized to use this bot!")>>,
                       <<>>, <<>>, NoReport, None)
          /\ UNCHANGED <<conversations, user_data, request>>
     ELSE /\ user_data' = [user_data EXCEPT ![u] = <<None>>]
          /\ conversations' = [conversations EXCEPT ![u] = TRADE]
          /\ request' = [request EXCEPT ![u] = [NoRequest EXCEPT !.mode = "trade"]]
          /\ last' = Handled("Trade_Command", u, "/trade", NoGateway,
                       <<Msg("Please enter the trade that you would like to place.")>>,
                       <<>>, <<>>, NoReport, None)
  /\ UNCHANGED ALLOWED_MT4_ACCOUNT_NUMBER

Calculation_Command(u) ==
  /\ conversations[u] = END
  /\ IF ~(u = TELEGRAM_USER)
     THEN /\ last' = Handled("Calculation_Command", u, "/calculate", NoGateway,
                       <<Msg("Sorry, You are not authorized to use this bot!")>>,
                       <<>>, <<>>, NoReport, None)
          /\ UNCHANGED <<conversations, user_data, request>>
     ELSE /\ user_data' = [user_data EXCEPT ![u] = <<None>>]
          /\ conversations' = [conversations EXCEPT ![u] = CALCULATE]
          /\ request' = [request EXCEPT ![u] = [NoRequest EXCEPT !.mode = "calculate"]]
          /\ last' = Handled("Calculation_Command", u, "/calculate", NoGateway,
                       <<Msg("Please enter the trade that you would like to calculate.")>>,
                       <<>>, <<>>, NoReport, None)
  /\ UNCHANGED ALLOWED_MT4_ACCOUNT_NUMBER

\* The parsing both handlers begin with when user_data['trade'] is None:
\* an empty dict raises Exception('Invalid Trade'), and every exception is the
\* error of the re-prompt
ParseError(parsed) ==
  Err("There was an error parsing this trade",
      IF parsed.tag = "empty" THEN "Invalid Trade" ELSE parsed.tag)

\* Mutant: the rejection ends the conversation
Reprompt_Ends(handler, state, u, text, parsed) ==
  /\ conversations' = [conversations EXCEPT ![u] = END]
  /\ last' = Handled(handler, u, text, NoGateway, <<ParseError(parsed)>>,
               <<>>, <<>>, NoReport, None)
  /\ UNCHANGED <<user_data, request>>

\* The re-prompt of both handlers: the state returned is the one they are in
Reprompt(handler, state, u, text, parsed) ==
  /\ conversations' = [conversations EXCEPT ![u] = state]
  /\ last' = Handled(handler, u, text, NoGateway, <<ParseError(parsed)>>,
               <<>>, <<>>, NoReport, None)
  /\ UNCHANGED <<user_data, request>>

ParsedReply(fresh) == IF fresh THEN <<Msg("Trade Successfully Parsed!")>> ELSE <<>>

\* Mutant: the handler does not end the conversation
Placed_Stays(u, text, g, fresh, run) ==
  /\ user_data' = [user_data EXCEPT ![u] = <<None>>]
  /\ UNCHANGED conversations
  /\ request' = [request EXCEPT
       ![u].signal = IF fresh THEN text ELSE @,
       ![u].yes = @ \/ text = "/yes",
       ![u].runs = @ + 1,
       ![u].orders = @ \o run.orders]
  /\ last' = Handled("PlaceTrade", u, text, g, ParsedReply(fresh) \o run.replies,
               run.calls, run.orders, run.report, <<run.trade>>)

\* Lines 239 to 241, with what ConnectMetaTrader did
Placed(u, text, g, fresh, run) ==
  /\ user_data' = [user_data EXCEPT ![u] = <<None>>]
  /\ conversations' = [conversations EXCEPT ![u] = END]
  /\ request' = [request EXCEPT
       ![u].signal = IF fresh THEN text ELSE @,
       ![u].yes = @ \/ text = "/yes",
       ![u].runs = @ + 1,
       ![u].orders = @ \o run.orders]
  /\ last' = Handled("PlaceTrade", u, text, g, ParsedReply(fresh) \o run.replies,
               run.calls, run.orders, run.report, <<run.trade>>)

\* fresh: user_data['trade'] is None, and the text is parsed
\* Line 241, with the trade: one run of ConnectMetaTrader, with some outcome
\* of what is not computed
Placing(u, text, g, up, fresh, trade) ==
  \E o \in UnknownsOf(trade) :
    Placed(u, text, g, fresh, ConnectMetaTrader(trade, TRUE, g, up \o o))

PlaceParsed(u, text, g, up, fresh, parsed) ==
  IF fresh /\ parsed.tag # "dict"
  THEN Reprompt("PlaceTrade", TRADE, u, text, parsed)
  ELSE Placing(u, text, g, up, fresh,
               IF fresh THEN parsed.trade ELSE user_data[u][1][1])

PlaceTrade(u, text, g, up) ==
  /\ user_data[u] # <<>>
  /\ PlaceParsed(u, text, g, up, user_data[u][1] = None, Parse(text))
  /\ UNCHANGED ALLOWED_MT4_ACCOUNT_NUMBER

\* Mutant: the trade is not kept for the decision
Decide_Forgets(u, text, g, fresh, run) ==
  /\ user_data' = [user_data EXCEPT ![u] = <<None>>]
  /\ conversations' = [conversations EXCEPT ![u] = DECISION]
  /\ request' = [request EXCEPT
       ![u].signal = IF fresh THEN text ELSE @,
       ![u].orders = @ \o run.orders]
  /\ last' = Handled("CalculateTrade", u, text, g,
               ParsedReply(fresh) \o run.replies
                 \o <<Msg("Would you like to enter this trade?")>>,
               run.calls, run.orders, run.report, <<run.trade>>)

\* Lines 257 to 259, with what ConnectMetaTrader did: the dict it changed
\* stays in user_data
Decide(u, text, g, fresh, run) ==
  /\ user_data' = [user_data EXCEPT ![u] = <<<<run.trade>>>>]
  /\ conversations' = [conversations EXCEPT ![u] = DECISION]
  /\ request' = [request EXCEPT
       ![u].signal = IF fresh THEN text ELSE @,
       ![u].orders = @ \o run.orders]
  /\ last' = Handled("CalculateTrade", u, text, g,
               ParsedReply(fresh) \o run.replies
                 \o <<Msg("Would you like to enter this trade?")>>,
               run.calls, run.orders, run.report, <<run.trade>>)

\* Mutant: the calculation runs ConnectMetaTrader with enterTrade True
\* Line 259, with the trade: one run of ConnectMetaTrader, with some outcome
\* of what is not computed
Calculating(u, text, g, up, fresh, trade, enterTrade) ==
  \E o \in UnknownsOf(trade) :
    Decide(u, text, g, fresh, ConnectMetaTrader(trade, enterTrade, g, up \o o))

CalculateParsed_Enters(u, text, g, up, fresh, parsed) ==
  IF fresh /\ parsed.tag # "dict"
  THEN Reprompt("CalculateTrade", CALCULATE, u, text, parsed)
  ELSE Calculating(u, text, g, up, fresh,
                   IF fresh THEN parsed.trade ELSE user_data[u][1][1], TRUE)

CalculateParsed(u, text, g, up, fresh, parsed) ==
  IF fresh /\ parsed.tag # "dict"
  THEN Reprompt("CalculateTrade", CALCULATE, u, text, parsed)
  ELSE Calculating(u, text, g, up, fresh,
                   IF fresh THEN parsed.trade ELSE user_data[u][1][1], FALSE)

CalculateTrade(u, text, g, up) ==
  /\ user_data[u] # <<>>
  /\ CalculateParsed(u, text, g, up, user_data[u][1] = None, Parse(text))
  /\ UNCHANGED ALLOWED_MT4_ACCOUNT_NUMBER

cancel(u, text) ==
  /\ user_data' = [user_data EXCEPT ![u] = <<None>>]
  /\ conversations' = [conversations EXCEPT ![u] = END]
  /\ last' = Handled("cancel", u, text, NoGateway,
               <<Msg("Command has been canceled.")>>, <<>>, <<>>, NoReport, None)
  /\ UNCHANGED <<ALLOWED_MT4_ACCOUNT_NUMBER, request>>

unknown_command(u, text) ==
  /\ last' = Handled("unknown_command", u, text, NoGateway,
               IF ~(u = TELEGRAM_USER)
               THEN <<Msg("Sorry, You are not authorized to use this bot!")>>
               ELSE <<Msg("Unknown command.")>>,
               <<>>, <<>>, NoReport, None)
  /\ UNCHANGED <<ALLOWED_MT4_ACCOUNT_NUMBER, conversations, user_data, request>>

(***************************************************************************)
(* main: the dispatch of an update to a handler.  The ConversationHandler  *)
(* tries its entry points when the user's conversation has no state, and   *)
(* otherwise the handlers of the state and then the fallbacks; an update   *)
(* it does not handle goes to unknown_command.                             *)
(***************************************************************************)
OnTrade(u) == Trade_Command(u) /\ UNCHANGED sized

OnCalculate(u) == Calculation_Command(u) /\ UNCHANGED sized

OnTradeText(u) ==
  /\ conversations[u] = TRADE
  /\ \E text \in SignalSet, g \in Gateways, up \in Ties :
       ~IsCommand(text) /\ PlaceTrade(u, text, g, up)
  /\ UNCHANGED sized

OnCalculateText(u) ==
  /\ conversations[u] = CALCULATE
  /\ \E text \in SignalSet, g \in Gateways, up \in Ties :
       ~IsCommand(text) /\ CalculateTrade(u, text, g, up)
  /\ UNCHANGED sized

OnYes(u) ==
  /\ conversations[u] = DECISION
  /\ \E g \in Gateways, up \in Ties : PlaceTrade(u, "/yes", g, up)
  /\ UNCHANGED sized

OnNo(u) ==
  /\ conversations[u] = DECISION
  /\ cancel(u, "/no")
  /\ UNCHANGED sized

OnCancel(u) ==
  /\ conversations[u] \in {TRADE, CALCULATE, DECISION}
  /\ cancel(u, "/cancel")
  /\ UNCHANGED sized

OnOther(u) ==
  \E text \in Commands \cup SignalSet :
    /\ UNCHANGED sized
    /\ CASE conversations[u] = END -> text \notin {"/trade", "/calculate"}
         [] conversations[u] \in {TRADE, CALCULATE} -> IsCommand(text) /\ text # "/cancel"
         [] conversations[u] = DECISION -> text \notin {"/yes", "/no", "/cancel"}
    /\ unknown_command(u, text)

Init ==
  /\ ALLOWED_MT4_ACCOUNT_NUMBER \in {None} \cup {<<s>> : s \in EnvValues}
  /\ conversations = [u \in Users |-> END]
  /\ user_data = [u \in Users |-> <<>>]
  /\ request = [u \in Users |-> NoRequest]
  /\ last = [handler |-> "", user |-> "", text |-> "", g |-> NoGateway, from |-> END,
             replies |-> <<>>, calls |-> <<>>, orders |-> <<>>, report |-> NoReport,
             trade |-> None]
  /\ sized = NoSizing

Next ==
  \E u \in Users :
    \/ OnTrade(u)
    \/ OnCalculate(u)
    \/ OnTradeText(u)
    \/ OnCalculateText(u)
    \/ OnYes(u)
    \/ OnNo(u)
    \/ OnCancel(u)
    \/ OnOther(u)

Spec == Init /\ [][Next]_vars

(***************************************************************************)
(* Line 109 taken alone: the position size of a balance, a risk factor and *)
(* two pip distances, the first not above the second.                      *)
(***************************************************************************)
\* Balances in cents, risk factors in per cent, pip distances from 1
BalanceStep == 16000
MaxBalanceSteps == 6
MaxRiskFactor == 3
MaxPips == 6

\* The directions of the two floors: one computation has one result, so equal
\* pip distances have equal directions
Sizings ==
  {[balance |-> b * BalanceStep, RiskFactor |-> r, stopLossPips |-> <<p, q>>,
    up |-> <<u, v>>, PositionSize |-> <<>>] :
     b \in 0..MaxBalanceSteps, r \in 1..MaxRiskFactor,
     p \in 1..MaxPips, q \in 1..MaxPips, u \in BOOLEAN, v \in BOOLEAN}

SizeInit ==
  /\ ALLOWED_MT4_ACCOUNT_NUMBER = None
  /\ conversations = [u \in Users |-> END]
  /\ user_data = [u \in Users |-> <<>>]
  /\ request = [u \in Users |-> NoRequest]
  /\ last = [handler |-> "", user |-> "", text |-> "", g |-> NoGateway, from |-> END,
             replies |-> <<>>, calls |-> <<>>, orders |-> <<>>, report |-> NoReport,
             trade |-> None]
  /\ sized \in {z \in Sizings :
                  /\ z.stopLossPips[1] <= z.stopLossPips[2]
                  /\ z.stopLossPips[1] = z.stopLossPips[2] => z.up[1] = z.up[2]}

\* trade['PositionSize'] for each of the two pip distances
SizePosition ==
  /\ sized.PositionSize = <<>>
  /\ sized' = [sized EXCEPT !.PositionSize =
                 [i \in 1..2 |-> PositionSizeOf(sized.balance, sized.RiskFactor,
                                                sized.stopLossPips[i], sized.up[i])]]
  /\ UNCHANGED <<ALLOWED_MT4_ACCOUNT_NUMBER, conversations, user_data, request, last>>

SizeNext == SizePosition

SizeSpec == SizeInit /\ [][SizeNext]_vars

(***************************************************************************)
(* Properties                                                              *)
(***************************************************************************)
\* The last update was given to this handler
Ran(handler) == last.handler = handler

\* The last update ran ConnectMetaTrader
Connecting == last.handler \in {"PlaceTrade", "CalculateTrade"} /\ last.calls # <<>>

\* The intent of a user's current request, as parsed from its signal
HasIntent(u) == request[u].signal # ""
Intent(u) == Parsed[request[u].signal].trade

\* The last run made gateway calls and none of them raised
CallsSucceeded ==
  /\ last.calls # <<>>
  /\ \A i \in 1..Len(last.calls) : last.calls[i] # last.g.raises
  /\ \A i \in 1..Len(last.orders) : ~last.orders[i].raised

Sent(text) == \E i \in 1..Len(last.replies) : last.replies[i].text = text
Raised(error) == \E i \in 1..Len(last.replies) : last.replies[i].error = error

\* C1: in a request begun by /calculate, orders are placed only by the handler
\* of a /yes received in DECISION; the calculation itself, /no and /cancel
\* place none.
C1_OrderGating ==
  /\ \A u \in Users :
       request[u].mode = "calculate" /\ request[u].orders # <<>> => request[u].yes
  /\ (last.orders # <<>> /\ request[last.user].mode = "calculate")
       => last.handler = "PlaceTrade" /\ last.text = "/yes" /\ last.from = DECISION
  /\ last.handler \in {"CalculateTrade", "cancel"} => last.orders = <<>>

\* C1 witness: a /calculate request whose /yes placed orders
C1_Witness ==
  \E u \in Users :
    /\ request[u].mode = "calculate" /\ request[u].yes
    /\ request[u].orders # <<>>

\* C2: a /trade or /calculate of a requester other than TELEGRAM_USER is
\* answered with the denial only, calls no gateway, and changes no user's
\* conversation state or user_data; that requester's conversation is in no
\* state and holds no data.
C2_AuthorizationGate ==
  [][(last'.handler \in {"Trade_Command", "Calculation_Command"}
      /\ last'.user # TELEGRAM_USER)
     => /\ Len(last'.replies) = 1
        /\ last'.replies[1].text \in {"You are not authorized to use this bot!",
                                      "Sorry, You are not authorized to use this bot!"}
        /\ last'.calls = <<>> /\ last'.orders = <<>>
        /\ conversations' = conversations
        /\ user_data' = user_data
        /\ request' = request
        /\ conversations'[last'.user] = END
        /\ user_data'[last'.user] = <<>>]_vars

\* C2 witness: the denial of /trade while the operator's intent is pending
C2_Witness ==
  /\ Ran("Trade_Command") /\ last.user = "intruder"
  /\ Sent("You are not authorized to use this bot!")
  /\ conversations[TELEGRAM_USER] = DECISION

\* C3: a text that ParseSignal rejects in TRADE or CALCULATE is answered with
\* the usage error; the conversation stays in the state it was in,
\* user_data['trade'] stays None and no gateway call is made.
C3_RejectionReprompts ==
  (/\ last.handler \in {"PlaceTrade", "CalculateTrade"}
   /\ last.from \in {TRADE, CALCULATE}
   /\ Parsed[last.text].tag # "dict")
  => /\ Len(last.replies) = 1
     /\ last.replies[1].text = "There was an error parsing this trade"
     /\ conversations[last.user] = last.from
     /\ user_data[last.user] = <<None>>
     /\ last.calls = <<>> /\ last.orders = <<>> /\ last.report = NoReport

\* C3 witness: the signal without a stop-loss line, rejected in TRADE
C3_Witness ==
  /\ Ran("PlaceTrade") /\ last.from = TRADE
  /\ last.text = "BUY GBPUSD\nEntry NOW\nTP 1.28930"
  /\ Raised("IndexError")

\* C4: when a signal parsed in TRADE has its risk report presented and no
\* gateway call raises, one order is issued per take-profit, in their order,
\* each of PositionSize / len(TP) with that take-profit and the stop-loss,
\* by the call of the order type, with the entry only for limit and stop
\* orders; then the conversation has ended.
C4_OnePerLeg ==
  (/\ Ran("PlaceTrade") /\ last.from = TRADE
   /\ Parsed[last.text].tag = "dict"
   /\ last.report # NoReport
   /\ CallsSucceeded)
  => /\ Len(last.orders) = Len(Parsed[last.text].trade.TP)
     /\ \A i \in 1..Len(last.orders) :
          /\ last.orders[i].call = CreateOrder(Parsed[last.text].trade.OrderType)
          /\ last.orders[i].symbol = Parsed[last.text].trade.Symbol
          /\ last.orders[i].volume * Len(last.orders)
               = last.report[1].PositionSize * 10
          /\ last.orders[i].takeProfit = Parsed[last.text].trade.TP[i]
          /\ last.orders[i].stopLoss = Parsed[last.text].trade.StopLoss
          /\ last.orders[i].openPrice =
               IF Parsed[last.text].trade.OrderType \in {"Buy", "Sell"}
               THEN <<>> ELSE <<Parsed[last.text].trade.Entry.f>>
     /\ conversations[last.user] = END

\* C4 witness: two orders placed for a signal with two take-profits
C4_Witness ==
  /\ Ran("PlaceTrade") /\ last.from = TRADE /\ CallsSucceeded
  /\ Len(last.orders) = 2
  /\ last.orders[1].takeProfit # last.orders[2].takeProfit
  /\ last.orders[1].volume > 0

\* The last run attempted the first order of an intent of two take-profits,
\* and the gateway failed it
FirstLegFailed ==
  /\ Ran("PlaceTrade") /\ HasIntent(last.user)
  /\ Len(Intent(last.user).TP) = 2
  /\ last.orders # <<>>
  /\ last.orders[1].raised

\* C5 as claimed: when the first order of two fails, the failure is reported
\* and the second order is still issued.
C5_SiblingStillIssued ==
  FirstLegFailed => Sent("There was an issue") /\ Len(last.orders) = 2

\* C5 amended: an order that fails ends the placement.  When the first order
\* of two fails, the failure is reported once, the second order is not issued,
\* no success is reported, and the conversation ends.
C5_FailureEndsPlacement ==
  /\ \A i \in 1..Len(last.orders) : last.orders[i].raised => i = Len(last.orders)
  /\ FirstLegFailed
       => /\ Len(last.orders) = 1
          /\ Sent("There was an issue") /\ Raised("OrderError")
          /\ ~Sent("Trade entered successfully, Good Luck!")
          /\ conversations[last.user] = END

\* C5 witness: the first of two orders failed
C5_Witness == FirstLegFailed /\ last.g.failedOrder = 1

\* The last run met a connectivity error: a call up to the account
\* information raised, or the account was not the allowed one
ConnectivityError ==
  /\ Connecting
  /\ \/ /\ last.g.raises \in {"deploy", "wait_connected", "connect",
                              "wait_synchronized", "get_account_information"}
        /\ last.calls[Len(last.calls)] = last.g.raises
        /\ Sent("There was an issue with the connection")
     \/ Sent("Connected to an unauthorized MT4 account. Operation aborted.")

\* C6 as claimed: after a connectivity error the conversation has ended with
\* user_data['trade'] None, in both modes.
C6_ConnectivityErrorEnds ==
  ConnectivityError
    => conversations[last.user] = END /\ user_data[last.user] = <<None>>

\* The last update was a /yes in DECISION on an intent given with Entry NOW,
\* and the run reached the risk report
YesOnMarketIntent ==
  /\ Ran("PlaceTrade") /\ last.text = "/yes" /\ last.from = DECISION
  /\ HasIntent(last.user)
  /\ Intent(last.user).Entry = StrEntry("NOW")
  /\ last.report # NoReport

\* C7 as claimed: a /yes in DECISION on an intent given with Entry NOW fetches
\* the price again and computes the report from the price of this run.
C7_YesRefetchesPrice ==
  YesOnMarketIntent
    => /\ \E i \in 1..Len(last.calls) : last.calls[i] = "get_symbol_price"
       /\ last.report[1].Entry = Priced(Intent(last.user), last.g).Entry.f
       /\ last.report[1].Balance = last.g.balance

\* The last run reached the calculation with an entry equal to the stop-loss
ZeroDistance ==
  /\ Connecting
  /\ last.trade # None
  /\ last.trade[1].Entry.type = "float"
  /\ last.trade[1].Entry.f = last.trade[1].StopLoss
  /\ Sent("Successfully connected to MetaTrader!")

\* C8 as claimed: with an entry equal to the stop-loss the division is not
\* attempted; the trade is answered as an invalid trade, no position size is
\* produced and no order is placed.
C8_ZeroPipsRejected ==
  ZeroDistance
    => /\ ~Raised("ZeroDivisionError")
       /\ Sent("There was an error parsing this trade")
       /\ last.report = NoReport /\ last.orders = <<>>

\* The last run had a terminal outcome: orders were placed, the placement
\* failed, or a gateway call raised or met an account that is not allowed
TerminalOutcome ==
  /\ Connecting
  /\ \/ last.orders # <<>>
     \/ Raised("OrderError")
     \/ Raised("GatewayError")
     \/ Sent("Connected to an unauthorized MT4 account. Operation aborted.")

\* C9 as claimed: after every terminal outcome (a run of ConnectMetaTrader
\* that placed orders, failed to place them or met a gateway error, in either
\* mode, a /no, a /cancel) the conversation has ended with
\* user_data['trade'] None; a conversation that is not in a state holds no
\* trade; and an accepted /trade or /calculate begins with
\* user_data['trade'] None.
C9_TerminalOutcomeClearsIntent ==
  /\ \A u \in Users : conversations[u] = END => user_data[u] \in {<<>>, <<None>>}
  /\ (TerminalOutcome \/ last.handler = "cancel")
       => conversations[last.user] = END /\ user_data[last.user] = <<None>>
  /\ (last.handler \in {"Trade_Command", "Calculation_Command"}
      /\ last.user = TELEGRAM_USER)
       => user_data[last.user] = <<None>>

\* C10 as claimed: the entry of a Buy given with Entry NOW is the ask price
C10_BuyAtAsk ==
  (/\ Connecting /\ last.from \in {TRADE, CALCULATE}
   /\ Parsed[last.text].tag = "dict"
   /\ Parsed[last.text].trade.OrderType = "Buy"
   /\ Parsed[last.text].trade.Entry = StrEntry("NOW")
   /\ last.report # NoReport)
  => last.report[1].Entry = last.g.ask

\* The last run obtained the account information, and its login is not the
\* allowed account number
AccountMismatch ==
  /\ Connecting
  /\ ALLOWED_MT4_ACCOUNT_NUMBER # None
  /\ \E i \in 1..Len(last.calls) : last.calls[i] = "get_account_information"
  /\ last.g.raises # "get_account_information"
  /\ last.g.login # IntOf[ALLOWED_MT4_ACCOUNT_NUMBER[1]]

\* C11: when the login of the connected account is not the allowed account
\* number, the run is aborted with the notice: no price is fetched, no risk
\* report is computed and no order is placed, by PlaceTrade and by
\* CalculateTrade alike.
C11_AccountGuard ==
  AccountMismatch
    => /\ Sent("Connected to an unauthorized MT4 account. Operation aborted.")
       /\ ~Sent("Successfully connected to MetaTrader!")
       /\ last.calls[Len(last.calls)] = "get_account_information"
       /\ last.report = NoReport
       /\ last.orders = <<>>

\* C11 witness: a /yes whose run met another account, after a calculation on
\* the allowed one
C11_Witness ==
  /\ AccountMismatch
  /\ Ran("PlaceTrade") /\ last.text = "/yes"
  /\ last.trade[1].PositionSize # <<>>

\* The last update was a text given to ParseSignal: a handler of TRADE or
\* CALCULATE found user_data['trade'] None
FreshParse ==
  /\ last.handler \in {"PlaceTrade", "CalculateTrade"}
  /\ last.from \in {TRADE, CALCULATE}

Accepted == FreshParse /\ Parsed[last.text].tag = "dict"

\* C12 as claimed: a Buy Limit, Sell Limit, Buy Stop or Sell Stop signal is
\* accepted only with an entry that is a number above zero.
C12_PendingEntryPositive ==
  (/\ Accepted
   /\ Parsed[last.text].trade.OrderType
        \in {"Buy Limit", "Sell Limit", "Buy Stop", "Sell Stop"})
  => /\ Parsed[last.text].trade.Entry.type = "float"
     /\ Parsed[last.text].trade.Entry.f > 0

\* The order types in the order the claim gives, each with its phrase in
\* lower case
Priority ==
  << <<"Buy Limit", "buy limit">>, <<"Sell Limit", "sell limit">>,
     <<"Buy Stop", "buy stop">>, <<"Sell Stop", "sell stop">>,
     <<"Buy", "buy">>, <<"Sell", "sell">> >>

\* The places in Priority of the phrases that line 0 of each text contains,
\* whatever the case of its letters
Matched ==
  [text \in SignalSet |->
     {i \in 1..Len(Priority) :
        Contains(lower(splitlines(text)[1]), Chars(Priority[i][2]))}]

Matches(text) == Matched[text]

\* C13: a text whose line 0 contains none of the six phrases is rejected as an
\* invalid trade, and an accepted text has the order type of the first phrase,
\* in the order Buy Limit, Sell Limit, Buy Stop, Sell Stop, Buy, Sell, that
\* its line 0 contains; so a line 0 containing "Buy Limit" is never a Buy.
C13_ClassificationPriority ==
  FreshParse
    => /\ Matches(last.text) = {}
            => Parsed[last.text].tag = "empty" /\ Raised("Invalid Trade")
       /\ Accepted
            => /\ Matches(last.text) # {}
               /\ Parsed[last.text].trade.OrderType
                    = Priority[Min(Matches(last.text) \cup {Len(Priority)})][1]
               /\ 1 \in Matches(last.text)
                    => last.trade[1].OrderType = "Buy Limit"

\* C13 witness: a line 0 with "Sell limit" before "BUY LIMIT" is a Buy Limit
C13_Witness ==
  /\ Accepted
  /\ Matches(last.text) = {1, 2, 5, 6}
  /\ last.trade[1].OrderType = "Buy Limit"

\* The last run placed the order of the first take-profit and the gateway
\* failed that of the second
LaterLegFailed ==
  /\ Ran("PlaceTrade")
  /\ Len(last.orders) >= 2
  /\ ~last.orders[1].raised
  /\ last.orders[2].raised

\* C14: when the order of the second take-profit fails after the first was
\* placed, the failure is reported and nothing more is asked of the gateway:
\* the calls of the run are those of the connection and the two create calls
\* of the order type, the first order stands, and the conversation has ended
\* with user_data['trade'] None.
C14_NoRollback ==
  LaterLegFailed
    => /\ Len(last.orders) = 2
       /\ \A i \in 1..Len(last.orders) :
            last.orders[i].call = CreateOrder(last.trade[1].OrderType)
       /\ \A i \in 1..Len(last.calls) : last.calls[i] \in GatewayCalls
       /\ Sent("There was an issue") /\ Raised("OrderError")
       /\ ~Sent("Trade entered successfully, Good Luck!")
       /\ SubSeq(request[last.user].orders,
                 Len(request[last.user].orders) - 1,
                 Len(request[last.user].orders)) = last.orders
       /\ conversations[last.user] = END
       /\ user_data[last.user] = <<None>>

\* C14 witness: the second order of a /yes failed after the first was placed
C14_Witness ==
  /\ LaterLegFailed
  /\ last.text = "/yes"
  /\ last.orders[1].volume > 0

\* A token that float() reads as a number above zero
PositiveDecimal(tok) == float(tok).tag = "ok" /\ float(tok).f > 0

\* The entry of a trade is NOW, for a Buy or a Sell, or a price above zero
WellFormedEntry(trade) ==
  \/ trade.Entry = StrEntry("NOW") /\ trade.OrderType \in {"Buy", "Sell"}
  \/ trade.Entry.type = "float" /\ trade.Entry.f > 0
  \/ trade.Entry.type = "str" /\ PositiveDecimal(trade.Entry.s)

\* C15 as claimed: every trade held in user_data has an entry that is NOW, for
\* a Buy or a Sell, or a price above zero.
C15_StoredEntryWellFormed ==
  \A u \in Users :
    (user_data[u] # <<>> /\ user_data[u] # <<None>>)
      => WellFormedEntry(user_data[u][1][1])

\* The sizes of a sizing have been computed
Sized == sized.PositionSize # <<>>

\* C16: for every balance, risk factor and stopLossPips >= 1 the position
\* size, in hundredths of a lot, is floored: the loss PositionSize * 10 *
\* stopLossPips is not above balance * RiskFactor, and two hundredths more
\* would be above it.
C16_RiskCap ==
  Sized
    => \A i \in 1..2 :
         /\ sized.PositionSize[i] >= 0
         /\ sized.PositionSize[i] * sized.stopLossPips[i] * 1000
              <= sized.balance * sized.RiskFactor
         /\ (sized.PositionSize[i] + 2) * sized.stopLossPips[i] * 1000
              > sized.balance * sized.RiskFactor

\* C16 witness: a size above zero whose loss is strictly below the risk
C16_Witness ==
  /\ Sized
  /\ sized.PositionSize[1] > 0
  /\ sized.PositionSize[1] * sized.stopLossPips[1] * 1000
       < sized.balance * sized.RiskFactor

\* C17: for one balance and risk factor, the size of the smaller pip distance
\* is not below the size of the larger one.
C17_SizeMonotone ==
  Sized => sized.PositionSize[1] >= sized.PositionSize[2]

\* C17 witness: a larger pip distance with a strictly smaller size
C17_Witness ==
  /\ Sized
  /\ sized.stopLossPips[1] < sized.stopLossPips[2]
  /\ sized.PositionSize[1] > sized.PositionSize[2]
  /\ sized.PositionSize[2] > 0

\* user_data of u holds a trade dict
HoldsIntent(u) == user_data[u] # <<>> /\ user_data[u] # <<None>>

\* What ParseSignal gave of a trade, which no run changes
Signal(trade) ==
  <<trade.OrderType, trade.Symbol, trade.StopLoss, trade.TP, trade.RiskFactor>>

\* C18: between updates a user's user_data holds a trade exactly when the
\* conversation is in DECISION.  PlaceTrade is reached from TRADE with a text,
\* which it parses, and from DECISION with /yes, where it parses nothing and
\* runs on the trade that CalculateTrade stored.
C18_IntentIffDecision ==
  /\ \A u \in Users : HoldsIntent(u) <=> conversations[u] = DECISION
  /\ Ran("PlaceTrade")
       => /\ last.from \in {TRADE, DECISION}
          /\ last.from = DECISION <=> last.text = "/yes"
          /\ last.from = TRADE
               => /\ Sent("Trade Successfully Parsed!")
                       \/ Sent("There was an error parsing this trade")
                  /\ last.trade # None => Signal(last.trade[1]) = Signal(Parsed[last.text].trade)
          /\ last.from = DECISION
               => /\ ~Sent("Trade Successfully Parsed!")
                  /\ ~Sent("There was an error parsing this trade")
                  /\ last.trade # None
                  /\ Signal(last.trade[1]) = Signal(Intent(last.user))

\* C18 witness: a text that is no answer leaves the trade held in DECISION
C18_Witness ==
  /\ Ran("unknown_command") /\ last.from = DECISION
  /\ HoldsIntent(last.user)
  /\ conversations[last.user] = DECISION

\* C19: in one request ConnectMetaTrader runs at most once with enterTrade
\* True, and the orders of the request are at most those of the take-profits
\* of its trade, each for its own take-profit: at most two.
C19_NoDoubleSubmission ==
  \A u \in Users :
    /\ request[u].runs <= 1
    /\ Len(request[u].orders) <= 2
    /\ request[u].orders # <<>>
         => /\ request[u].runs = 1
            /\ HasIntent(u)
            /\ Len(request[u].orders) <= Len(Intent(u).TP)
            /\ \A i \in 1..Len(request[u].orders) :
                 request[u].orders[i].takeProfit = Intent(u).TP[i]

\* C19 witness: a second /yes after the two orders of a request were placed
C19_Witness ==
  /\ Ran("unknown_command") /\ last.text = "/yes"
  /\ request[last.user].runs = 1
  /\ Len(request[last.user].orders) = 2

====
